---- MODULE Spec2Model ----
(***************************************************************************)
(* Interview Flashcards (src/src/App.jsx): the record normalizer, the      *)
(* company-tag splitter, the filter/sort/shuffle pipeline, the traversal   *)
(* state, the keyboard and touch input, the grid of cards and the upload   *)
(* of a replacement file of the App component.                             *)
(*                                                                         *)
(* A JavaScript string is modelled as the sequence of its characters, each *)
(* character a one-character TLA+ string; '' is the empty sequence <<>>.   *)
(* A JavaScript object is a function from property names (strings) to      *)
(* values; an array is a sequence.                                         *)
(***************************************************************************)
EXTENDS Integers, Sequences, FiniteSets, TLC

VARIABLES
  bundledQuestions, \* the imported ./data/questions.json: an array of rows
  allData,          \* useState([])      the working set
  company,          \* useState('all')   company filter
  type,             \* useState('all')   type filter
  sortBy,           \* useState('none')  sort key
  randomized,       \* useState(false)   shuffle flag
  singleView,       \* useState(true)    single-card view (else grid)
  revealAnswer,     \* useState(false)   answer face shown in single view
  index,            \* useState(0)       cursor of single-card traversal
  filtered,         \* useMemo(...)      the filtered/sorted/shuffled list
  pc,               \* position of the component: "mount" (first render
                    \* committed, mount effects pending), "effect" (a render
                    \* committed, reset effect pending), "idle"
  flipped,          \* the useState(false) `flipped` of the FlashCards the
                    \* grid renders, by key (the position in the list)
  touchStartX,      \* useRef(null)     <<>> for null, <<x>> for a number
  touchDeltaX,      \* useRef(0)
  error,            \* useState('')     the message of the error banner
  file,             \* the file given to the upload control last
  lastEvent,        \* the handler or effect that changed the state last
  callee,           \* a direct call of a module-level function:
  callArg,          \*   its argument,
  callRand,         \*   the values Math.random() produced for it,
  callRet           \*   and what it returned

appVars == <<bundledQuestions, allData, company, type, sortBy, randomized,
             singleView, revealAnswer, index, filtered, pc,
             flipped, touchStartX, touchDeltaX, error, file>>
callVars == <<callee, callArg, callRand, callRet>>
vars == <<bundledQuestions, allData, company, type, sortBy, randomized,
          singleView, revealAnswer, index, filtered, pc,
          flipped, touchStartX, touchDeltaX, error, file, lastEvent,
          callee, callArg, callRand, callRet>>

-----------------------------------------------------------------------------
(* Strings *)

UpperCase == <<"A", "B", "C", "D", "E", "F", "G", "H", "I", "J", "K", "L", "M",
               "N", "O", "P", "Q", "R", "S", "T", "U", "V", "W", "X", "Y", "Z">>
LowerCase == <<"a", "b", "c", "d", "e", "f", "g", "h", "i", "j", "k", "l", "m",
               "n", "o", "p", "q", "r", "s", "t", "u", "v", "w", "x", "y", "z">>

\* White space as String.prototype.trim and the regular expression \s see it.
WhiteSpace == {" ", "\t", "\n", "\r"}

\* The characters the model knows the case and the collation weight of.
Letters == {UpperCase[i] : i \in 1..Len(UpperCase)} \cup {LowerCase[i] : i \in 1..Len(LowerCase)}

LowerOf ==
  [c \in Letters |->
     IF \E i \in 1..Len(UpperCase) : UpperCase[i] = c
     THEN LowerCase[CHOOSE i \in 1..Len(UpperCase) : UpperCase[i] = c]
     ELSE c]

toLowerCaseChar(c) == IF c \in Letters THEN LowerOf[c] ELSE c

\* String.prototype.toLowerCase
toLowerCase(s) == [i \in 1..Len(s) |-> toLowerCaseChar(s[i])]

\* String.prototype.trim
trim(s) ==
  LET ink == {i \in 1..Len(s) : s[i] \notin WhiteSpace} IN
  IF ink = {} THEN <<>>
  ELSE SubSeq(s, CHOOSE i \in ink : \A j \in ink : i <= j,
                 CHOOSE i \in ink : \A j \in ink : i >= j)

\* String.prototype.includes
includes(s, p) ==
  \E i \in 0..(Len(s) - Len(p)) : SubSeq(s, i + 1, i + Len(p)) = p

\* The JSON scalars a row can hold.
JsNull == [kind |-> "null", val |-> <<>>]
JsString(s) == [kind |-> "string", val |-> s]
JsNumber(n) == [kind |-> "number", val |-> n]

Digit == <<"0", "1", "2", "3", "4", "5", "6", "7", "8", "9">>

RECURSIVE NumberToString(_)
NumberToString(n) ==
  IF n < Len(Digit) THEN <<Digit[n + 1]>>
  ELSE NumberToString(n \div Len(Digit)) \o <<Digit[(n % Len(Digit)) + 1]>>

\* String(v) for a scalar that is not null.
String(v) == IF v.kind = "number" THEN NumberToString(v.val) ELSE v.val

-----------------------------------------------------------------------------
(* normalizeRecords *)

Company == <<"C", "o", "m", "p", "a", "n", "y">>
Type == <<"T", "y", "p", "e">>
Question == <<"Q", "u", "e", "s", "t", "i", "o", "n">>
Answer == <<"A", "n", "s", "w", "e", "r">>

\* Properties every object literal inherits from Object.prototype: the `in`
\* operator finds them too.
ObjectPrototype == { <<"c", "o", "n", "s", "t", "r", "u", "c", "t", "o", "r">>,
                     <<"t", "o", "S", "t", "r", "i", "n", "g">>,
                     <<"v", "a", "l", "u", "e", "O", "f">>,
                     <<"_", "_", "p", "r", "o", "t", "o", "_", "_">> }

mapKey_QuestionFirst(k) ==
  LET s == toLowerCase(trim(k)) IN
  IF includes(s, <<"q", "u", "e", "s", "t", "i", "o", "n">>) THEN Question
  ELSE IF includes(s, <<"c", "o", "m", "p", "a", "n", "y">>) THEN Company
  ELSE IF includes(s, <<"a", "n", "s", "w", "e", "r">>) THEN Answer
  ELSE IF includes(s, <<"b", "e", "h", "a", "v">>) THEN Type
  ELSE IF includes(s, <<"t", "e", "c", "h", "n">>) \/ s = <<"t", "y", "p", "e">> THEN Type
  ELSE k

mapKey(k) ==
  LET s == toLowerCase(trim(k)) IN
  IF includes(s, <<"c", "o", "m", "p", "a", "n", "y">>) THEN Company
  ELSE IF includes(s, <<"q", "u", "e", "s", "t", "i", "o", "n">>) THEN Question
  ELSE IF includes(s, <<"a", "n", "s", "w", "e", "r">>) THEN Answer
  ELSE IF includes(s, <<"b", "e", "h", "a", "v">>) THEN Type
  ELSE IF includes(s, <<"t", "e", "c", "h", "n">>) \/ s = <<"t", "y", "p", "e">> THEN Type
  ELSE k

\* const out = { Company: '', Type: '', Question: '', Answer: '' }
EmptyRecord == [f \in {Company, Type, Question, Answer} |-> <<>>]

\* kk in out
In(kk, out) == kk \in DOMAIN out \/ kk \in ObjectPrototype

\* out[kk] = val.  Writing a string to __proto__ changes nothing; writing to
\* another inherited name creates an own property.
Assign(out, kk, val) ==
  IF kk \in DOMAIN out THEN [out EXCEPT ![kk] = val]
  ELSE IF kk = <<"_", "_", "p", "r", "o", "t", "o", "_", "_">> THEN out
  ELSE (kk :> val) @@ out

WriteEntry_FirstWins(out, e) ==
  LET kk == mapKey(e[1]) IN
  IF In(kk, out) /\ (kk \in DOMAIN out => out[kk] = <<>>)
  THEN Assign(out, kk, IF e[2].kind = "null" THEN <<>> ELSE String(e[2]))
  ELSE out

\* The body of the for loop over Object.entries(r), entry <<k, v>>.
WriteEntry(out, e) ==
  LET kk == mapKey(e[1]) IN
  IF In(kk, out)
  THEN Assign(out, kk, IF e[2].kind = "null" THEN <<>> ELSE String(e[2]))
  ELSE out

RECURSIVE WriteEntries(_, _)
WriteEntries(out, entries) ==
  IF entries = <<>> THEN out
  ELSE WriteEntries(WriteEntry(out, Head(entries)), Tail(entries))

\* The callback of rows.map: a row is given as Object.entries lists it.
MapRow(r) == WriteEntries(EmptyRecord, r)

\* The callback of .filter: r.Question && r.Answer
KeepRow_QuestionOnly(r) == r[Question] # <<>>

KeepRow_Either(r) == r[Question] # <<>> \/ r[Answer] # <<>>

KeepRow(r) == r[Question] # <<>> /\ r[Answer] # <<>>

normalizeRecords(rows) ==
  SelectSeq([i \in 1..Len(rows) |-> MapRow(rows[i])], KeepRow)

-----------------------------------------------------------------------------
(* splitCompanies *)

Delimiter == {";", ",", "\n"}

\* value || '' followed by String(...): null, '' and 0 are falsy.
StringOrEmpty(value) ==
  IF value.kind = "null" THEN <<>>
  ELSE IF value.kind = "number" /\ value.val = 0 THEN <<>>
  ELSE String(value)

\* String.prototype.split(/[;,\n]/g): the pieces between delimiters, empty
\* pieces included ("".split gives one empty piece).
RECURSIVE split(_)
split(s) ==
  LET at == {i \in 1..Len(s) : s[i] \in Delimiter} IN
  IF at = {} THEN <<s>>
  ELSE LET i == CHOOSE i \in at : \A j \in at : i <= j
       IN <<SubSeq(s, 1, i - 1)>> \o split(SubSeq(s, i + 1, Len(s)))

RECURSIVE dropWhiteSpace(_)
dropWhiteSpace(s) ==
  IF s # <<>> /\ Head(s) \in WhiteSpace THEN dropWhiteSpace(Tail(s)) ELSE s

\* s.replace(/\s+/g, ' ')
RECURSIVE collapseWhiteSpace(_)
collapseWhiteSpace(s) ==
  IF s = <<>> THEN <<>>
  ELSE IF Head(s) \in WhiteSpace
       THEN <<" ">> \o collapseWhiteSpace(dropWhiteSpace(Tail(s)))
       ELSE <<Head(s)>> \o collapseWhiteSpace(Tail(s))

\* The callback of .map in splitCompanies.
cleanPiece_NoCollapse(s) == trim(s)

cleanPiece(s) == trim(collapseWhiteSpace(s))

\* Boolean(s) for a string s
NonEmpty(s) == s # <<>>

splitCompanies(value) ==
  LET pieces == split(StringOrEmpty(value)) IN
  SelectSeq([i \in 1..Len(pieces) |-> cleanPiece(pieces[i])], NonEmpty)

-----------------------------------------------------------------------------
(* shuffleArray *)

\* [a[i], a[j]] = [a[j], a[i]] on the 0-based array a
Swap(a, i, j) == [a EXCEPT ![i + 1] = a[j + 1], ![j + 1] = a[i + 1]]

\* The for loop of shuffleArray from index i down to 1. frame.arr is the
\* caller's array, frame.a the local one; js are the values of
\* Math.floor(Math.random() * (i + 1)) in the order the loop draws them.
RECURSIVE shuffleLoop(_, _, _)
shuffleLoop(frame, i, js) ==
  IF i > 0
  THEN shuffleLoop([frame EXCEPT !.a = Swap(frame.a, i, Head(js))], i - 1, Tail(js))
  ELSE frame

\* What Math.floor(Math.random() * (i + 1)) can be: Math.random() is in [0, 1).
RandomIndex_Exclusive(i) == 0..(i - 1)

RandomIndex(i) == 0..i

\* The sequences of draws one call of shuffleArray on n elements can see.
RandomDraws(n) ==
  IF n <= 1 THEN {<<>>}
  ELSE {js \in [1..(n - 1) -> 0..(n - 1)] :
          \A k \in 1..(n - 1) : js[k] \in RandomIndex(n - k)}

\* The frame after const a = [...arr] and the loop; a is what is returned.
shuffleArray(arr, js) == shuffleLoop([arr |-> arr, a |-> arr], Len(arr) - 1, js)

-----------------------------------------------------------------------------
(* String.prototype.localeCompare, for the characters the data uses: the    *)
(* collation compares base characters first (white space, then punctuation,*)
(* then digits, then letters without regard to case) and, between strings  *)
(* that differ in case only, puts the lower-case letter first.             *)

CollationOrder == <<"\t", "\n", "\r", " ", ",", ";", ".">> \o Digit \o LowerCase

Collated == {CollationOrder[i] : i \in 1..Len(CollationOrder)}

PrimaryWeightOf ==
  [c \in Collated |-> CHOOSE i \in 1..Len(CollationOrder) : CollationOrder[i] = c]

PrimaryWeight(c) ==
  LET l == toLowerCaseChar(c) IN
  IF l \in Collated THEN PrimaryWeightOf[l] ELSE Len(CollationOrder) + 1

TertiaryWeight(c) == IF toLowerCaseChar(c) = c THEN 0 ELSE 1

\* Lexicographic comparison of two sequences of numbers: -1, 0 or 1.
RECURSIVE CompareWeights(_, _)
CompareWeights(x, y) ==
  IF x = <<>> THEN (IF y = <<>> THEN 0 ELSE -1)
  ELSE IF y = <<>> THEN 1
  ELSE IF Head(x) < Head(y) THEN -1
  ELSE IF Head(x) > Head(y) THEN 1
  ELSE CompareWeights(Tail(x), Tail(y))

localeCompare(s, t) ==
  LET p == CompareWeights([i \in 1..Len(s) |-> PrimaryWeight(s[i])],
                          [i \in 1..Len(t) |-> PrimaryWeight(t[i])])
  IN IF p # 0 THEN p
     ELSE CompareWeights([i \in 1..Len(s) |-> TertiaryWeight(s[i])],
                         [i \in 1..Len(t) |-> TertiaryWeight(t[i])])

-----------------------------------------------------------------------------
(* The useMemo that computes `filtered` *)

all == <<"a", "l", "l">>

\* const cmp = (a, b, k) => String(a[k] || '').localeCompare(String(b[k] || ''))
cmp(a, b, k) == localeCompare(a[k], b[k])

\* Array.prototype.sort with (a, b) => cmp(a, b, k) is stable: x goes after
\* every element that does not compare greater than it.
insertSorted_Unstable(sorted, x, k) ==
  LET before == {i \in 1..Len(sorted) : cmp(sorted[i], x, k) < 0}
      n == Cardinality(before)
  IN SubSeq(sorted, 1, n) \o <<x>> \o SubSeq(sorted, n + 1, Len(sorted))

insertSorted(sorted, x, k) ==
  LET before == {i \in 1..Len(sorted) : cmp(sorted[i], x, k) <= 0}
      n == Cardinality(before)
  IN SubSeq(sorted, 1, n) \o <<x>> \o SubSeq(sorted, n + 1, Len(sorted))

RECURSIVE sortInto(_, _, _)
sortInto(sorted, rest, k) ==
  IF rest = <<>> THEN sorted
  ELSE sortInto(insertSorted(sorted, Head(rest), k), Tail(rest), k)

\* [...list].sort((a, b) => cmp(a, b, k))
sort(list, k) == sortInto(<<>>, list, k)

normalizedType_TechFirst(d) ==
  LET t == toLowerCase(d[Type]) IN
  IF includes(t, <<"t", "e", "c", "h">>) THEN <<"t", "e", "c", "h", "n", "i", "c", "a", "l">>
  ELSE IF includes(t, <<"b", "e", "h", "a", "v">>) THEN <<"b", "e", "h", "a", "v", "i", "o", "r", "a", "l">>
  ELSE t

\* t.includes('behav') ? 'behavioral' : t.includes('tech') ? 'technical' : t || ''
normalizedType(d) ==
  LET t == toLowerCase(d[Type]) IN
  IF includes(t, <<"b", "e", "h", "a", "v">>) THEN <<"b", "e", "h", "a", "v", "i", "o", "r", "a", "l">>
  ELSE IF includes(t, <<"t", "e", "c", "h">>) THEN <<"t", "e", "c", "h", "n", "i", "c", "a", "l">>
  ELSE t

\* Array.prototype.includes on an array of strings
arrayIncludes(arr, x) == \E i \in 1..Len(arr) : arr[i] = x

\* The callback of allData.filter
matches(d, c, t) ==
  LET comps == splitCompanies(JsString(d[Company]))
      matchCompany == c = all \/ arrayIncludes(comps, c)
      matchType == t = all \/ normalizedType(d) = t
  IN matchCompany /\ matchType

filterStage(data, c, t) ==
  LET keep(d) == matches(d, c, t) IN SelectSeq(data, keep)

sortStage(list, k) ==
  IF k = "none" THEN list
  ELSE IF k = "company" THEN sort(list, Company)
  ELSE IF k = "type" THEN sort(list, Type)
  ELSE IF k = "question" THEN sort(list, Question)
  ELSE list

\* The lists one evaluation of the memo can return: one for each sequence of
\* Math.random() values when `randomized`, else exactly one.
memoFiltered(data, c, t, k, r) ==
  LET list == sortStage(filterStage(data, c, t), k) IN
  IF r THEN {shuffleArray(list, js).a : js \in RandomDraws(Len(list))}
  ELSE {list}

RECURSIVE tagsOf_Whole(_)
tagsOf_Whole(data) ==
  IF data = <<>> THEN {}
  ELSE {trim(Head(data)[Company])} \cup tagsOf_Whole(Tail(data))

\* The useMemo that computes `companies`
RECURSIVE tagsOf(_)
tagsOf(data) ==
  IF data = <<>> THEN {}
  ELSE LET comps == splitCompanies(JsString(Head(data)[Company]))
       IN {comps[i] : i \in 1..Len(comps)} \cup tagsOf(Tail(data))

RECURSIVE sortStrings(_)
sortStrings(S) ==
  IF S = {} THEN <<>>
  ELSE LET m == CHOOSE x \in S : \A y \in S : localeCompare(x, y) <= 0
       IN <<m>> \o sortStrings(S \ {m})

companies(data) == sortStrings(tagsOf(data))

-----------------------------------------------------------------------------
(* The App component *)

\* No file has been given to the upload control.
NoFile == [format |-> "none", parsed |-> <<>>]

NoCall == [returned |-> FALSE, value |-> <<>>, arg |-> <<>>]

\* The component after its first render: every useState at its initial
\* value, the memo computed over the empty working set.
AppInit(bundle) ==
  /\ bundledQuestions = bundle
  /\ allData = <<>>
  /\ company = all
  /\ type = all
  /\ sortBy = "none"
  /\ randomized = FALSE
  /\ singleView = TRUE
  /\ revealAnswer = FALSE
  /\ index = 0
  /\ filtered = <<>>
  /\ pc = "mount"
  /\ flipped = <<>>
  /\ touchStartX = <<>>
  /\ touchDeltaX = 0
  /\ error = <<>>
  /\ file = NoFile
  /\ lastEvent = "render"

NoCallInit ==
  /\ callee = "none"
  /\ callArg = <<>>
  /\ callRand = <<>>
  /\ callRet = NoCall

\* filtered.map((qa, i) => <FlashCard key={i} .../>): the grid keeps the
\* FlashCard of a key that was rendered before, with its state, mounts a new
\* one (flipped false) for a new key and unmounts the ones without a card.
Reconcile(cards, n) == [i \in 1..n |-> IF i <= Len(cards) THEN cards[i] ELSE FALSE]

\* A state change that invalidates the memo: the next render recomputes
\* `filtered`, whose identity is a dependency of the reset effect.
Rerender(data, c, t, k, r) ==
  /\ filtered' \in memoFiltered(data, c, t, k, r)
  /\ flipped' = (IF singleView THEN <<>> ELSE Reconcile(flipped, Len(filtered')))
  /\ pc' = "effect"

\* useEffect(() => { setAllData(normalizeRecords(bundledQuestions)) }, []),
\* with the first runs of the reset effect (setIndex(0), setRevealAnswer(false))
\* and of the keydown effect, then the render they cause.
Mount ==
  /\ pc = "mount"
  /\ allData' = normalizeRecords(bundledQuestions)
  /\ index' = 0
  /\ revealAnswer' = FALSE
  /\ Rerender(allData', company, type, sortBy, randomized)
  /\ lastEvent' = "mount"
  /\ UNCHANGED <<bundledQuestions, company, type, sortBy, randomized, singleView>>
  /\ UNCHANGED <<touchStartX, touchDeltaX, error, file>>
  /\ UNCHANGED callVars

ResetEffect_KeepReveal ==
  /\ pc = "effect"
  /\ index' = 0
  /\ pc' = "idle"
  /\ UNCHANGED <<bundledQuestions, allData, company, type, sortBy, randomized,
                 singleView, revealAnswer, filtered, lastEvent>>
  /\ UNCHANGED <<flipped, touchStartX, touchDeltaX, error, file>>
  /\ UNCHANGED callVars

\* useEffect(() => { setIndex(0); setRevealAnswer(false) }, [filtered, singleView])
ResetEffect ==
  /\ pc = "effect"
  /\ index' = 0
  /\ revealAnswer' = FALSE
  /\ pc' = "idle"
  /\ UNCHANGED <<bundledQuestions, allData, company, type, sortBy, randomized,
                 singleView, filtered, lastEvent>>
  /\ UNCHANGED <<flipped, touchStartX, touchDeltaX, error, file>>
  /\ UNCHANGED callVars

\* The options of the company <select>
CompanyOptions ==
  LET cs == companies(allData) IN {all} \cup {cs[i] : i \in 1..Len(cs)}

\* onChange={(e) => setCompany(e.target.value)}
SetCompany ==
  /\ pc = "idle"
  /\ \E c \in CompanyOptions \ {company} :
       /\ company' = c
       /\ Rerender(allData, c, type, sortBy, randomized)
  /\ lastEvent' = "setCompany"
  /\ UNCHANGED <<bundledQuestions, allData, type, sortBy, randomized, singleView,
                 revealAnswer, index>>
  /\ UNCHANGED <<touchStartX, touchDeltaX, error, file>>
  /\ UNCHANGED callVars

TypeOptions == {all, <<"t", "e", "c", "h", "n", "i", "c", "a", "l">>, <<"b", "e", "h", "a", "v", "i", "o", "r", "a", "l">>}

\* onChange={(e) => setType(e.target.value)}
SetType ==
  /\ pc = "idle"
  /\ \E t \in TypeOptions \ {type} :
       /\ type' = t
       /\ Rerender(allData, company, t, sortBy, randomized)
  /\ lastEvent' = "setType"
  /\ UNCHANGED <<bundledQuestions, allData, company, sortBy, randomized, singleView,
                 revealAnswer, index>>
  /\ UNCHANGED <<touchStartX, touchDeltaX, error, file>>
  /\ UNCHANGED callVars

SortOptions == {"none", "company", "type", "question"}

\* onChange={(e) => setSortBy(e.target.value)}
SetSortBy ==
  /\ pc = "idle"
  /\ \E k \in SortOptions \ {sortBy} :
       /\ sortBy' = k
       /\ Rerender(allData, company, type, k, randomized)
  /\ lastEvent' = "setSortBy"
  /\ UNCHANGED <<bundledQuestions, allData, company, type, randomized, singleView,
                 revealAnswer, index>>
  /\ UNCHANGED <<touchStartX, touchDeltaX, error, file>>
  /\ UNCHANGED callVars

\* onChange={(e) => setRandomized(e.target.checked)}
SetRandomized ==
  /\ pc = "idle"
  /\ randomized' = ~randomized
  /\ Rerender(allData, company, type, sortBy, randomized')
  /\ lastEvent' = "setRandomized"
  /\ UNCHANGED <<bundledQuestions, allData, company, type, sortBy, singleView,
                 revealAnswer, index>>
  /\ UNCHANGED <<touchStartX, touchDeltaX, error, file>>
  /\ UNCHANGED callVars

SetSingleView_NoEffect ==
  /\ pc = "idle"
  /\ singleView' = ~singleView
  /\ lastEvent' = "setSingleView"
  /\ UNCHANGED <<bundledQuestions, allData, company, type, sortBy, randomized,
                 revealAnswer, index, filtered, pc>>
  /\ flipped' = (IF singleView' THEN <<>> ELSE [i \in 1..Len(filtered) |-> FALSE])
  /\ UNCHANGED <<touchStartX, touchDeltaX, error, file>>
  /\ UNCHANGED callVars

\* onChange={(e) => setSingleView(!e.target.checked)}: the memo is kept,
\* singleView is a dependency of the reset effect.  The grid mounts one
\* FlashCard for each card of the list; the single view unmounts them.
SetSingleView ==
  /\ pc = "idle"
  /\ singleView' = ~singleView
  /\ pc' = "effect"
  /\ lastEvent' = "setSingleView"
  /\ UNCHANGED <<bundledQuestions, allData, company, type, sortBy, randomized,
                 revealAnswer, index, filtered>>
  /\ flipped' = (IF singleView' THEN <<>> ELSE [i \in 1..Len(filtered) |-> FALSE])
  /\ UNCHANGED <<touchStartX, touchDeltaX, error, file>>
  /\ UNCHANGED callVars

\* const current = filtered[index] || null: <<>> for null, <<card>> for a card
current == IF index < Len(filtered) THEN <<filtered[index + 1]>> ELSE <<>>

\* {current ? <FlashCard .../> : <div>No cards match your filters.</div>}
SingleViewShows ==
  IF current # <<>> THEN "FlashCard" ELSE "No cards match your filters."

prevCard_NoWrap ==
  /\ IF Len(filtered) = 0
     THEN UNCHANGED <<index, revealAnswer>>
     ELSE /\ index' = (IF index = 0 THEN 0 ELSE index - 1)
          /\ revealAnswer' = FALSE

\* function prevCard()
prevCard ==
  /\ IF Len(filtered) = 0
     THEN UNCHANGED <<index, revealAnswer>>
     ELSE /\ index' = (index - 1 + Len(filtered)) % Len(filtered)
          /\ revealAnswer' = FALSE

nextCard_HideAlways ==
  /\ index' = (IF Len(filtered) = 0 THEN index ELSE (index + 1) % Len(filtered))
  /\ revealAnswer' = FALSE

\* function nextCard()
nextCard ==
  /\ IF Len(filtered) = 0
     THEN UNCHANGED <<index, revealAnswer>>
     ELSE /\ index' = (index + 1) % Len(filtered)
          /\ revealAnswer' = FALSE

\* <button onClick={prevCard}>Prev</button>, rendered in single view
ClickPrev ==
  /\ pc = "idle"
  /\ singleView
  /\ prevCard
  /\ lastEvent' = "prevCard"
  /\ UNCHANGED <<bundledQuestions, allData, company, type, sortBy, randomized,
                 singleView, filtered, pc>>
  /\ UNCHANGED <<flipped, touchStartX, touchDeltaX, error, file>>
  /\ UNCHANGED callVars

\* <button onClick={nextCard}>Next</button>, rendered in single view
ClickNext ==
  /\ pc = "idle"
  /\ singleView
  /\ nextCard
  /\ lastEvent' = "nextCard"
  /\ UNCHANGED <<bundledQuestions, allData, company, type, sortBy, randomized,
                 singleView, filtered, pc>>
  /\ UNCHANGED <<flipped, touchStartX, touchDeltaX, error, file>>
  /\ UNCHANGED callVars

\* onClick={() => setRevealAnswer((r) => !r)}: the Show/Hide Answer button
\* and the card's onToggle, both rendered in single view
ToggleReveal ==
  /\ pc = "idle"
  /\ singleView
  /\ revealAnswer' = ~revealAnswer
  /\ lastEvent' = "toggleReveal"
  /\ UNCHANGED <<bundledQuestions, allData, company, type, sortBy, randomized,
                 singleView, index, filtered, pc>>
  /\ UNCHANGED <<flipped, touchStartX, touchDeltaX, error, file>>
  /\ UNCHANGED callVars

\* const SWIPE_THRESHOLD = 50
SWIPE_THRESHOLD == 50

Abs(x) == IF x < 0 THEN 0 - x ELSE x

\* The clientX of the first touch of a touch event.
TouchXs == {0, SWIPE_THRESHOLD, SWIPE_THRESHOLD + SWIPE_THRESHOLD + 1}

\* The touch handlers are props of the FlashCard of the single view only.
CardIsTouchable == singleView /\ current # <<>>

\* function onTouchStart(e)
OnTouchStart ==
  /\ pc = "idle"
  /\ CardIsTouchable
  /\ \E x \in TouchXs : touchStartX' = <<x>>
  /\ touchDeltaX' = 0
  /\ lastEvent' = "touchStart"
  /\ UNCHANGED <<bundledQuestions, allData, company, type, sortBy, randomized,
                 singleView, revealAnswer, index, filtered, pc, flipped, error, file>>
  /\ UNCHANGED callVars

\* function onTouchMove(e)
OnTouchMove ==
  /\ pc = "idle"
  /\ CardIsTouchable
  /\ IF touchStartX = <<>>
     THEN UNCHANGED touchDeltaX
     ELSE \E x \in TouchXs : touchDeltaX' = x - touchStartX[1]
  /\ lastEvent' = "touchMove"
  /\ UNCHANGED <<bundledQuestions, allData, company, type, sortBy, randomized,
                 singleView, revealAnswer, index, filtered, pc, flipped,
                 touchStartX, error, file>>
  /\ UNCHANGED callVars

\* function onTouchEnd()
OnTouchEnd ==
  /\ pc = "idle"
  /\ CardIsTouchable
  /\ IF touchStartX = <<>>
     THEN UNCHANGED <<touchStartX, touchDeltaX, index, revealAnswer>>
     ELSE LET dx == touchDeltaX IN
          /\ touchStartX' = <<>>
          /\ touchDeltaX' = 0
          /\ IF Abs(dx) > SWIPE_THRESHOLD
             THEN IF dx < 0 THEN nextCard ELSE prevCard
             ELSE UNCHANGED <<index, revealAnswer>>
  /\ lastEvent' = "touchEnd"
  /\ UNCHANGED <<bundledQuestions, allData, company, type, sortBy, randomized,
                 singleView, filtered, pc, flipped, error, file>>
  /\ UNCHANGED callVars

\* The keydown events: the arrows, the space bar and a key without a shortcut.
KeyEvents == { [key |-> "ArrowRight", code |-> "ArrowRight"],
               [key |-> "ArrowLeft", code |-> "ArrowLeft"],
               [key |-> " ", code |-> "Space"],
               [key |-> "Enter", code |-> "Enter"] }

\* const onKey = (e) => {...}, the listener of window's keydown in either view
OnKey ==
  /\ pc = "idle"
  /\ \E e \in KeyEvents :
       /\ IF e.key = "ArrowRight" THEN nextCard
          ELSE IF e.key = "ArrowLeft" THEN prevCard
          ELSE IF e.code = "Space"
               THEN revealAnswer' = ~revealAnswer /\ UNCHANGED index
               ELSE UNCHANGED <<index, revealAnswer>>
       /\ lastEvent' = e.code
  /\ UNCHANGED <<bundledQuestions, allData, company, type, sortBy, randomized,
                 singleView, filtered, pc, flipped, touchStartX, touchDeltaX,
                 error, file>>
  /\ UNCHANGED callVars

\* onClick={() => (onToggle ? onToggle() : setFlipped(!flipped))} of a
\* FlashCard of the grid, which is given no onToggle
ClickGridCard ==
  /\ pc = "idle"
  /\ ~singleView
  /\ \E i \in 1..Len(flipped) : flipped' = [flipped EXCEPT ![i] = ~flipped[i]]
  /\ lastEvent' = "setFlipped"
  /\ UNCHANGED <<bundledQuestions, allData, company, type, sortBy, randomized,
                 singleView, revealAnswer, index, filtered, pc,
                 touchStartX, touchDeltaX, error, file>>
  /\ UNCHANGED callVars

\* const isRevealed = reveal ?? flipped, of the FlashCard at position i of
\* the grid, which is given no reveal
GridCardIsRevealed(i) == flipped[i]

-----------------------------------------------------------------------------
(* Direct calls of the module-level functions *)

CallSplitCompanies ==
  /\ callee = "splitCompanies"
  /\ ~callRet.returned
  /\ callRet' = [returned |-> TRUE, value |-> splitCompanies(callArg), arg |-> callArg]
  /\ UNCHANGED <<callee, callArg, callRand>>
  /\ UNCHANGED appVars
  /\ UNCHANGED lastEvent

CallShuffleArray ==
  /\ callee = "shuffleArray"
  /\ ~callRet.returned
  /\ \E js \in RandomDraws(Len(callArg)) :
       LET frame == shuffleArray(callArg, js) IN
       /\ callRand' = js
       /\ callRet' = [returned |-> TRUE, value |-> frame.a, arg |-> frame.arr]
  /\ UNCHANGED <<callee, callArg>>
  /\ UNCHANGED appVars
  /\ UNCHANGED lastEvent

-----------------------------------------------------------------------------
(* Inputs *)

MaxRows == 3      \* rows of a bundled file, where the order of rows matters
MaxCards == 3     \* records of the working set fed to the pipeline
MaxLen == 4       \* characters of a Company value given to splitCompanies
MaxShuffle == 3   \* elements of an array given to shuffleArray

SeqsUpTo(S, n) == UNION {[1..m -> S] : m \in 0..n}

\* The sequences of at most n elements of S that repeat none.
DistinctSeqsUpTo(S, n) ==
  {s \in SeqsUpTo(S, n) : \A i, j \in 1..Len(s) : i # j => s[i] # s[j]}

Q1 == JsString(<<"Q", "1">>)
Q2 == JsString(<<"Q", "2">>)
A1 == JsString(<<"A", "1">>)
V == JsString(<<"V">>)

\* A row as Object.entries lists it: <<key, value>> pairs in insertion order.
QARow(q, a) == << <<Question, q>>, <<Answer, a>> >>

\* Keys of uploaded or bundled rows: every rule of mapKey alone, keys that
\* match several rules, near misses, and names that Object.prototype holds.
KeyPool == { <<"C", "o", "m", "p", "a", "n", "y">>, <<" ", "c", "o", "m", "p", "a", "n", "y", " ", "n", "a", "m", "e", " ">>, <<"C", "O", "M", "P", "A", "N", "Y">>,
             <<"Q", "u", "e", "s", "t", "i", "o", "n">>, <<"T", "e", "c", "h", " ", "Q", "u", "e", "s", "t", "i", "o", "n">>, <<"A", "n", "s", "w", "e", "r">>, <<"a", "n", "s", "w", "e", "r", "s">>,
             <<"B", "e", "h", "a", "v", "i", "o", "r", "a", "l">>, <<"b", "e", "h", "a", "v">>, <<"T", "e", "c", "h", "n", "i", "c", "a", "l">>, <<"t", "e", "c", "h", "n">>,
             <<"t", "y", "p", "e">>, <<" ", "T", "y", "p", "e", "\t">>, <<"t", "y", "p", "e", "s">>, <<"t", "e", "c", "h">>,
             <<"c", "o", "m", "p", "a", "n", "y", " ", "q", "u", "e", "s", "t", "i", "o", "n">>, <<"q", "u", "e", "s", "t", "i", "o", "n", " ", "c", "o", "m", "p", "a", "n", "y">>,
             <<"a", "n", "s", "w", "e", "r", " ", "q", "u", "e", "s", "t", "i", "o", "n">>, <<"b", "e", "h", "a", "v", " ", "a", "n", "s", "w", "e", "r">>, <<"t", "e", "c", "h", "n", "i", "c", "a", "l", " ", "b", "e", "h", "a", "v">>,
             <<"t", "y", "p", "e", " ", "o", "f", " ", "c", "o", "m", "p", "a", "n", "y">>, <<"q", "u", "e", "s", "t", "i", "o", "n", " ", "t", "y", "p", "e">>,
             <<"C", "o", ".">>, <<"a", "n", "s">>, <<"n", "o", "t", "e", "s">>, <<>>,
             <<"v", "a", "l", "u", "e", "O", "f">>, <<"_", "_", "p", "r", "o", "t", "o", "_", "_">> }

\* A row with its question under "the question" and its answer under
\* "my answer", and one more key written after them or before them.
ProbeRowOf(k) == << <<<<"t", "h", "e", " ", "q", "u", "e", "s", "t", "i", "o", "n">>, Q1>>, <<<<"m", "y", " ", "a", "n", "s", "w", "e", "r">>, A1>>, <<k, V>> >>
ProbeRowFirst(k) == << <<k, V>>, <<<<"t", "h", "e", " ", "q", "u", "e", "s", "t", "i", "o", "n">>, Q1>>, <<<<"m", "y", " ", "a", "n", "s", "w", "e", "r">>, A1>> >>

\* The same row with any scalar under the key written last.
ProbeRowWith(k, v) == << <<<<"t", "h", "e", " ", "q", "u", "e", "s", "t", "i", "o", "n">>, Q1>>, <<<<"m", "y", " ", "a", "n", "s", "w", "e", "r">>, A1>>, <<k, v>> >>

ExampleRow == << <<<<"C", "o", ".">>, JsString(<<"A", "c", "m", "e">>)>>,
                 <<<<"T", "e", "c", "h", " ", "Q", "u", "e", "s", "t", "i", "o", "n">>, Q1>>,
                 <<<<"a", "n", "s">>, A1>> >>

ScalarPool == {Q1, JsString(<<>>), JsNull, JsNumber(0)}

OrderPool == {QARow(Q1, A1), QARow(Q2, A1), QARow(JsString(<<>>), A1), QARow(Q1, JsNull)}

NormalizeInputs ==
  {<<ProbeRowOf(k)>> : k \in KeyPool} \cup {<<ProbeRowFirst(k)>> : k \in KeyPool}
    \cup {<<QARow(q, a)>> : q \in ScalarPool, a \in ScalarPool}
    \cup {<<ExampleRow>>}
    \cup {<<ProbeRowWith(k, v)>> : k \in KeyPool, v \in {JsNull, JsNumber(0)}}
    \cup SeqsUpTo(OrderPool, MaxRows)

CardRow(c, t, q, a) ==
  << <<Company, JsString(c)>>, <<Type, JsString(t)>>,
     <<Question, JsString(q)>>, <<Answer, JsString(a)>> >>

Row1 == CardRow(<<"A", "c", "m", "e", ",", " ", "G", "l", "o", "b", "e", "x">>, <<"T", "e", "c", "h", "n", "i", "c", "a", "l">>, <<"b">>, <<"x">>)
Row2 == CardRow(<<"g", "l", "o", "b", "e", "x", ";", "A", "c", "m", "e">>, <<"B", "e", "h", "a", "v", "i", "o", "r", "a", "l", " ", "t", "e", "c", "h">>, <<"a">>, <<"x">>)
Row3 == CardRow(<<>>, <<>>, <<"a">>, <<"y">>)
Row4 == CardRow(<<"A", "c", "m", "e", ",", " ", "G", "l", "o", "b", "e", "x">>, <<"T", "e", "c", "h", "n", "i", "c", "a", "l">>, <<"B">>, <<"y">>)
RowNoAnswer == CardRow(<<"A", "c", "m", "e">>, <<"T", "e", "c", "h", "n", "i", "c", "a", "l">>, <<"c">>, <<>>)

CardRows == {Row1, Row2, Row3, Row4}

PipelineInputs == DistinctSeqsUpTo(CardRows, MaxCards)

Bundles == { <<Row1, Row2, RowNoAnswer, Row3>>, <<Row4, Row1>>, <<>> }

SplitAlphabet == {"a", "B", ",", ";", "\n", " "}

ExampleCompany == <<"A", "c", "m", "e", ",", " ", "G", "l", "o", "b", "e", "x", ";", " ", " ", "I", "n", "i", "t", "e", "c", "h", "\n", "U", "m", "b", "r", "e", "l", "l", "a">>

SplitInputs ==
  {JsString(s) : s \in SeqsUpTo(SplitAlphabet, MaxLen)}
    \cup {JsNull, JsNumber(0), JsNumber(7), JsString(ExampleCompany),
          JsString(<<"a", "\t", " ", "\r", " ", "b">>)}

ShuffleInputs == SeqsUpTo(1..MaxShuffle, MaxShuffle)

-----------------------------------------------------------------------------
(* The upload control *)

\* The upload of a replacement file.  The handler is not in App.jsx, which
\* holds the `error` state and its banner only; it is modelled as the
\* specification gives it.  A file is its format ("structured", "tabular" or
\* another) and what parsing it gives: <<rows>>, or <<>> when parsing fails.
AcceptedFormats == {"structured", "tabular"}

Rejected(f) == f.format \notin AcceptedFormats \/ f.parsed = <<>>

\* The message of the error banner; the specification fixes no wording.
UploadErrorMessage == <<"U", "n", "s", "u", "p", "p", "o", "r", "t", "e", "d", " ", "f", "i", "l", "e">>

UploadFiles ==
  {[format |-> f, parsed |-> p] :
     f \in AcceptedFormats \cup {"text"},
     p \in {<<>>, << <<>> >>, << <<Row4>> >>, << <<Row1, RowNoAnswer, Row3>> >>}}

Upload_DiscardsWorkingSet ==
  /\ pc = "idle"
  /\ \E f \in UploadFiles :
       /\ file' = f
       /\ IF Rejected(f)
          THEN /\ error' = UploadErrorMessage
               /\ allData' = <<>>
          ELSE /\ error' \in {error, <<>>}
               /\ allData' = normalizeRecords(f.parsed[1])
       /\ Rerender(allData', company, type, sortBy, randomized)
  /\ lastEvent' = "upload"
  /\ UNCHANGED <<bundledQuestions, company, type, sortBy, randomized, singleView,
                 revealAnswer, index, touchStartX, touchDeltaX>>
  /\ UNCHANGED callVars

\* A file of an accepted format that parses replaces the working set with
\* its normalized rows; any other file sets the error message and nothing
\* else.  The specification does not say whether a file that is accepted
\* clears an earlier message.
Upload ==
  /\ pc = "idle"
  /\ \E f \in UploadFiles :
       /\ file' = f
       /\ IF Rejected(f)
          THEN /\ error' = UploadErrorMessage
               /\ UNCHANGED <<allData, filtered, flipped, pc>>
          ELSE /\ error' \in {error, <<>>}
               /\ allData' = normalizeRecords(f.parsed[1])
               /\ Rerender(allData', company, type, sortBy, randomized)
  /\ lastEvent' = "upload"
  /\ UNCHANGED <<bundledQuestions, company, type, sortBy, randomized, singleView,
                 revealAnswer, index, touchStartX, touchDeltaX>>
  /\ UNCHANGED callVars

\* {error && <div ...>{error}</div>}
ErrorBannerShown == error # <<>>

-----------------------------------------------------------------------------
(* Specifications *)

Init == (\E bundle \in Bundles : AppInit(bundle)) /\ NoCallInit

Next ==
  \/ Mount
  \/ ResetEffect
  \/ SetCompany
  \/ SetType
  \/ SetSortBy
  \/ SetRandomized
  \/ SetSingleView
  \/ ClickPrev
  \/ ClickNext
  \/ ToggleReveal

Spec == Init /\ [][Next]_vars

\* The keyboard and the touch screen, with the view switch and the type filter.
NextInput ==
  \/ Mount
  \/ ResetEffect
  \/ SetType
  \/ SetSingleView
  \/ OnKey
  \/ OnTouchStart
  \/ OnTouchMove
  \/ OnTouchEnd
SpecInput == Init /\ [][NextInput]_vars

\* The grid of cards, with the view switch and the filter and sort controls.
NextGrid ==
  \/ Mount
  \/ ResetEffect
  \/ SetCompany
  \/ SetType
  \/ SetSortBy
  \/ SetSingleView
  \/ ClickGridCard
SpecGrid == Init /\ [][NextGrid]_vars

\* The upload control, with the type filter.
NextUpload == Mount \/ ResetEffect \/ SetType \/ Upload
SpecUpload == Init /\ [][NextUpload]_vars

\* The data load alone, over many bundled files.
InitNormalize == (\E bundle \in NormalizeInputs : AppInit(bundle)) /\ NoCallInit
NextNormalize == Mount \/ ResetEffect
SpecNormalize == InitNormalize /\ [][NextNormalize]_vars

\* The filter and sort controls alone, over many working sets.
InitPipeline == (\E bundle \in PipelineInputs : AppInit(bundle)) /\ NoCallInit
NextPipeline == Mount \/ ResetEffect \/ SetCompany \/ SetType \/ SetSortBy
SpecPipeline == InitPipeline /\ [][NextPipeline]_vars

\* splitCompanies called on its own.
InitSplit ==
  /\ AppInit(<<>>)
  /\ callee = "splitCompanies"
  /\ callArg \in SplitInputs
  /\ callRand = <<>>
  /\ callRet = NoCall
NextSplit == CallSplitCompanies
SpecSplit == InitSplit /\ [][NextSplit]_vars

\* shuffleArray called on its own.
InitShuffle ==
  /\ AppInit(<<>>)
  /\ callee = "shuffleArray"
  /\ callArg \in ShuffleInputs
  /\ callRand = <<>>
  /\ callRet = NoCall
NextShuffle == CallShuffleArray
SpecShuffle == InitShuffle /\ [][NextShuffle]_vars

-----------------------------------------------------------------------------
(* Properties of the record normalizer, checked under SpecNormalize *)

Fields == {Company, Type, Question, Answer}

\* The four canonical fields of a record, without any other own property.
FourFields(r) == [f \in Fields |-> r[f]]

\* The rows of the input whose mapped Question and Answer are both non-empty.
Complete(rows) ==
  {j \in 1..Len(rows) : MapRow(rows[j])[Question] # <<>> /\ MapRow(rows[j])[Answer] # <<>>}

\* The n-th smallest element of a set of numbers.
NthOf(S, n) == CHOOSE j \in S : Cardinality({k \in S : k < j}) = n - 1

\* C1: once the bundled rows are normalized, every record of the working set
\* has a non-empty Question and a non-empty Answer; the working set holds
\* exactly the mapped rows with both, one record per such row, in the order
\* of the rows: a row with an empty mapped Question or Answer is absent.
C1_NormalizeKeepsCompleteRowsInOrder ==
  pc # "mount" =>
    /\ \A i \in 1..Len(allData) :
         allData[i][Question] # <<>> /\ allData[i][Answer] # <<>>
    /\ Len(allData) = Cardinality(Complete(bundledQuestions))
    /\ \A i \in 1..Len(allData) :
         allData[i] = MapRow(bundledQuestions[NthOf(Complete(bundledQuestions), i)])

\* Three rows, the middle one dropped, the two kept ones different.
C1_Witness ==
  /\ pc # "mount"
  /\ Len(bundledQuestions) = 3
  /\ Complete(bundledQuestions) = {1, 3}
  /\ Len(allData) = 2
  /\ allData[1] # allData[2]

\* The rules of the key mapping in their order: the text a trimmed,
\* lower-cased key must contain, and the field it is then written to.
Rules == << <<<<"c", "o", "m", "p", "a", "n", "y">>, Company>>,
            <<<<"q", "u", "e", "s", "t", "i", "o", "n">>, Question>>,
            <<<<"a", "n", "s", "w", "e", "r">>, Answer>>,
            <<<<"b", "e", "h", "a", "v">>, Type>>,
            <<<<"t", "e", "c", "h", "n">>, Type>> >>

\* The rules a key matches; the last rule also takes the key "type" itself.
Matching(k) ==
  LET s == toLowerCase(trim(k)) IN
  {i \in 1..Len(Rules) : includes(s, Rules[i][1])}
    \cup (IF s = <<"t", "y", "p", "e">> THEN {Len(Rules)} ELSE {})

\* The field of the earliest rule the key matches, <<>> when it matches none.
FirstRuleField(k) ==
  IF Matching(k) = {} THEN <<>>
  ELSE Rules[CHOOSE i \in Matching(k) : \A j \in Matching(k) : i <= j][2]

\* C2: a row that holds a question, an answer and, written last, one more key
\* k with the value "V" normalizes to one record in which "V" is in the field
\* of the earliest rule k matches and in no other field; when k matches no
\* rule, "V" is in none of the four fields.
C2_KeyGoesToEarliestRule ==
  pc # "mount" =>
    \A k \in KeyPool :
      bundledQuestions = <<ProbeRowOf(k)>> =>
        /\ Len(allData) = 1
        /\ FourFields(allData[1]) =
             [f \in Fields |->
                IF f = FirstRuleField(k) THEN V.val
                ELSE IF f = Question THEN Q1.val
                ELSE IF f = Answer THEN A1.val
                ELSE <<>>]

\* The key "company question" matches the first and the second rule.
C2_Witness ==
  /\ pc # "mount"
  /\ bundledQuestions = <<ProbeRowOf(<<"c", "o", "m", "p", "a", "n", "y", " ", "q", "u", "e", "s", "t", "i", "o", "n">>)>>
  /\ Len(allData) = 1
  /\ allData[1][Company] = V.val
  /\ allData[1][Question] = Q1.val

\* C3 as the specification states it: the example row normalizes to the
\* record {Company: "Acme", Type: "", Question: "Q1", Answer: "A1"}.
C3_ExampleRowGivesRecord ==
  (pc # "mount" /\ bundledQuestions = <<ExampleRow>>) =>
    allData = << (Company :> <<"A", "c", "m", "e">>) @@ (Type :> <<>>)
                   @@ (Question :> Q1.val) @@ (Answer :> A1.val) >>

\* C3, amended: of the keys of the example row only "Tech Question" matches
\* a rule; the mapped row has Question "Q1" and every other field empty, and
\* is dropped for its empty Answer: the result holds no record.
C3_ExampleRowIsDropped ==
  (pc # "mount" /\ bundledQuestions = <<ExampleRow>>) =>
    /\ FourFields(MapRow(ExampleRow)) =
         [f \in Fields |-> IF f = Question THEN Q1.val ELSE <<>>]
    /\ allData = <<>>

C3_Witness ==
  /\ pc = "idle"
  /\ bundledQuestions = <<ExampleRow>>
  /\ filtered = <<>>

\* The text a scalar is stored as: nothing for null, the digits of a number.
Text(v) ==
  IF v.kind = "null" THEN <<>>
  ELSE IF v.kind = "number" THEN NumberToString(v.val)
  ELSE v.val

\* The entries of a row whose key goes to field f.
EntriesFor(r, f) == {i \in 1..Len(r) : FirstRuleField(r[i][1]) = f}

\* The text of the last entry of the row whose key goes to field f, the
\* empty string when the row has no such entry.
LastValue(r, f) ==
  IF EntriesFor(r, f) = {} THEN <<>>
  ELSE Text(r[CHOOSE i \in EntriesFor(r, f) : \A j \in EntriesFor(r, f) : j <= i][2])

\* The rows whose last Question value and last Answer value are non-empty.
KeptByLastValue(rows) ==
  {j \in 1..Len(rows) :
     LastValue(rows[j], Question) # <<>> /\ LastValue(rows[j], Answer) # <<>>}

\* C15: every field of a normalized record holds the value of the last
\* entry of its row whose key maps to the field, as a string, null as the
\* empty string; a row is kept exactly when its last Question value and its
\* last Answer value are non-empty, so a null written last to Question or
\* Answer drops a row that held a value there before.
C15_LastKeyWinsNullDropsRow ==
  pc # "mount" =>
    LET kept == KeptByLastValue(bundledQuestions) IN
    /\ Len(allData) = Cardinality(kept)
    /\ \A i \in 1..Len(allData) :
         FourFields(allData[i]) =
           [f \in Fields |-> LastValue(bundledQuestions[NthOf(kept, i)], f)]

\* "the question" holds "Q1"; "Tech Question", written after it, holds null.
C15_Witness ==
  /\ pc # "mount"
  /\ bundledQuestions = <<ProbeRowWith(<<"T", "e", "c", "h", " ", "Q", "u", "e", "s", "t", "i", "o", "n">>, JsNull)>>
  /\ LastValue(bundledQuestions[1], Answer) = A1.val
  /\ allData = <<>>

-----------------------------------------------------------------------------
(* Properties of the filter and sort stages, checked under SpecPipeline *)

Range(s) == {s[i] : i \in 1..Len(s)}

Count(s, x) == Cardinality({i \in 1..Len(s) : s[i] = x})

IsPermutation(s, t) ==
  /\ Len(s) = Len(t)
  /\ \A x \in Range(s) \cup Range(t) : Count(s, x) = Count(t, x)

\* The elements of s at the positions in S, in the order of s.
Pick(s, S) == [n \in 1..Cardinality(S) |-> s[NthOf(S, n)]]

\* The normalized type as the filter stage is specified to see it.
TypeSeen(d) ==
  IF includes(toLowerCase(d[Type]), <<"b", "e", "h", "a", "v">>) THEN <<"b", "e", "h", "a", "v", "i", "o", "r", "a", "l">>
  ELSE IF includes(toLowerCase(d[Type]), <<"t", "e", "c", "h">>) THEN <<"t", "e", "c", "h", "n", "i", "c", "a", "l">>
  ELSE toLowerCase(d[Type])

\* The positions of the working set the filters let through.
Passing ==
  {i \in 1..Len(allData) :
     /\ company = all \/ company \in Range(splitCompanies(JsString(allData[i][Company])))
     /\ type = all \/ TypeSeen(allData[i]) = type}

BothTypes(d) ==
  /\ includes(toLowerCase(d[Type]), <<"b", "e", "h", "a", "v">>)
  /\ includes(toLowerCase(d[Type]), <<"t", "e", "c", "h">>)

\* C4: the displayed list holds exactly the records of the working set that
\* pass the company filter ("all", or one of the record's company tags) and
\* the type filter ("all", or the record's normalized type), in working-set
\* order when neither sorted nor shuffled; a record whose Type contains both
\* "behav" and "tech" is kept under "behavioral" (if its company passes) and
\* never under "technical".
C4_FilterKeepsExactlyTheMatches ==
  pc # "mount" =>
    /\ IsPermutation(filtered, Pick(allData, Passing))
    /\ (sortBy = "none" /\ ~randomized) => filtered = Pick(allData, Passing)
    /\ \A i \in 1..Len(allData) :
         BothTypes(allData[i]) =>
           /\ type = <<"t", "e", "c", "h", "n", "i", "c", "a", "l">> => allData[i] \notin Range(filtered)
           /\ (type = <<"b", "e", "h", "a", "v", "i", "o", "r", "a", "l">> /\ company = all) => allData[i] \in Range(filtered)

\* A company tag and "behavioral" are selected; a record whose Type contains
\* both "behav" and "tech" is shown, and some record is filtered out.
C4_Witness ==
  /\ pc = "idle"
  /\ company # all
  /\ type = <<"b", "e", "h", "a", "v", "i", "o", "r", "a", "l">>
  /\ sortBy = "none"
  /\ Len(filtered) > 0
  /\ Len(filtered) < Len(allData)
  /\ \E d \in Range(filtered) : BothTypes(d)

\* The field a sort key sorts on.
SortField == IF sortBy = "company" THEN Company
             ELSE IF sortBy = "type" THEN Type
             ELSE Question

\* The elements of s whose field f compares equal to that of x, in order.
EqualRun(s, f, x) ==
  Pick(s, {i \in 1..Len(s) : localeCompare(s[i][f], x[f]) = 0})

\* C5: with the sort key "none" the displayed list is the filtered sequence
\* as is; with another key it is a permutation of the filtered sequence,
\* ascending on the key's field, and records whose values of that field
\* compare equal keep the order they have in the filtered sequence. The
\* working set stays what the load produced.
C5_SortIsStableAscendingPermutation ==
  pc # "mount" =>
    LET base == filterStage(allData, company, type) IN
    /\ sortBy = "none" => filtered = base
    /\ sortBy # "none" =>
         /\ IsPermutation(filtered, base)
         /\ \A i, j \in 1..Len(filtered) :
              i < j => localeCompare(filtered[i][SortField], filtered[j][SortField]) <= 0
         /\ \A x \in Range(base) :
              EqualRun(filtered, SortField, x) = EqualRun(base, SortField, x)
    /\ allData = normalizeRecords(bundledQuestions)

\* Sorted by question: the working set starts with the record that sorts
\* last, and two different records with the same Question follow it.
C5_Witness ==
  /\ pc = "idle"
  /\ sortBy = "question"
  /\ Len(filtered) = 3
  /\ filtered[3] = allData[1]
  /\ filtered[1] # filtered[2]
  /\ filtered[1][Question] = filtered[2][Question]
  /\ filtered[1] = allData[2]

-----------------------------------------------------------------------------
(* Properties of shuffleArray, checked under SpecShuffle *)

RECURSIVE Factorial(_)
Factorial(n) == IF n <= 1 THEN 1 ELSE n * Factorial(n - 1)

AllDistinct(s) == \A i, j \in 1..Len(s) : i # j => s[i] # s[j]

\* Every rearrangement of the sequence s.
PermutationsOf(s) == {t \in [1..Len(s) -> Range(s)] : IsPermutation(t, s)}

\* C6: a call of shuffleArray draws one j in 0..i for each i from n-1 down to
\* 1; whatever it draws, the result is a permutation of the argument and the
\* argument array is left as it was; for n <= 1 the result equals the
\* argument; and for n distinct elements the possible draws produce each of
\* the n! permutations, each from exactly one sequence of draws.
C6_ShuffleIsUniformPermutation ==
  callRet.returned =>
    LET n == Len(callArg)
        results == {shuffleArray(callArg, js).a : js \in RandomDraws(n)}
    IN /\ Len(callRand) = (IF n = 0 THEN 0 ELSE n - 1)
       /\ \A k \in 1..Len(callRand) : callRand[k] \in 0..(n - k)
       /\ IsPermutation(callRet.value, callArg)
       /\ callRet.arg = callArg
       /\ n <= 1 => callRet.value = callArg
       /\ AllDistinct(callArg) =>
            /\ results = PermutationsOf(callArg)
            /\ Cardinality(results) = Factorial(n)
            /\ Cardinality(RandomDraws(n)) = Factorial(n)

\* Three distinct elements came back rotated.
C6_Witness ==
  /\ callRet.returned
  /\ Len(callArg) = 3
  /\ AllDistinct(callArg)
  /\ callRet.value = <<callArg[3], callArg[1], callArg[2]>>

-----------------------------------------------------------------------------
(* Properties of splitCompanies, checked under SpecSplit *)

\* The string splitCompanies works on: '' for an empty, null or zero value.
RawOf(value) ==
  IF value.kind = "string" THEN value.val
  ELSE IF value.kind = "number" /\ value.val # 0 THEN NumberToString(value.val)
  ELSE <<>>

\* Position i of s holds neither white space nor a delimiter.
IsInk(s, i) == s[i] \notin WhiteSpace /\ s[i] \notin {",", ";", "\n"}

\* A word starts at i: white space, a delimiter or nothing is before it.
WordStart(s, i) == IsInk(s, i) /\ (i = 1 \/ ~IsInk(s, i - 1))

\* A tag starts at i: it is the first inked position since the last delimiter.
TagStart(s, i) ==
  /\ IsInk(s, i)
  /\ \A j \in 1..(i - 1) :
       IsInk(s, j) => \E m \in j..i : s[m] \in {",", ";", "\n"}

\* The last position before the first delimiter at or after i.
PieceEnd(s, i) ==
  LET ds == {j \in i..Len(s) : s[j] \in {",", ";", "\n"}} IN
  IF ds = {} THEN Len(s) ELSE (CHOOSE j \in ds : \A m \in ds : j <= m) - 1

\* The words from position i to position e, one space between two words.
RECURSIVE WordsJoined(_, _, _)
WordsJoined(s, i, e) ==
  IF i > e THEN <<>>
  ELSE (IF ~IsInk(s, i) THEN <<>>
        ELSE IF WordStart(s, i) /\ ~TagStart(s, i) THEN <<" ", s[i]>>
        ELSE <<s[i]>>) \o WordsJoined(s, i + 1, e)

\* The tags of s: for each piece with a word in it, its words joined.
TagsOf(s) ==
  LET starts == {i \in 1..Len(s) : TagStart(s, i)} IN
  [k \in 1..Cardinality(starts) |->
     WordsJoined(s, NthOf(starts, k), PieceEnd(s, NthOf(starts, k)))]

\* C10: splitCompanies returns, in order of appearance, one tag for each
\* piece between commas, semicolons and newlines that holds a word: the words
\* of the piece with one space between them. No tag is empty or starts or
\* ends with white space; a tag that occurs twice is returned twice; an
\* empty, null or delimiter-only value gives no tag.
C10_SplitCompaniesGivesCleanTagsInOrder ==
  callRet.returned =>
    LET raw == RawOf(callArg)
        tags == callRet.value
    IN /\ tags = TagsOf(raw)
       /\ \A k \in 1..Len(tags) :
            /\ tags[k] # <<>>
            /\ tags[k][1] \notin WhiteSpace
            /\ tags[k][Len(tags[k])] \notin WhiteSpace
       /\ (\A i \in 1..Len(raw) : ~IsInk(raw, i)) => tags = <<>>
       /\ callArg = JsString(<<"a", ",", "a">>) => tags = << <<"a">>, <<"a">> >>
       /\ callArg = JsString(ExampleCompany) =>
            tags = <<<<"A", "c", "m", "e">>, <<"G", "l", "o", "b", "e", "x">>, <<"I", "n", "i", "t", "e", "c", "h">>, <<"U", "m", "b", "r", "e", "l", "l", "a">>>>

\* The example of the specification: four tags from three kinds of delimiter.
C10_Witness ==
  /\ callRet.returned
  /\ callArg = JsString(ExampleCompany)
  /\ Len(callRet.value) = 4
  /\ callRet.value[3] = <<"I", "n", "i", "t", "e", "c", "h">>

-----------------------------------------------------------------------------
(* Properties of the company selector, checked under SpecPipeline *)

\* The company tags of a record.
TagSet(d) == Range(TagsOf(d[Company]))

\* C16: the options of the company selector after "all" are the company tags
\* of the working set, none of them empty, each once, in ascending order;
\* with the type filter "all", every option selects at least one record,
\* the selected option's list is not empty, and every record with a company
\* tag is selected by at least one option.
C16_CompanyOptionsAreTheTags ==
  pc # "mount" =>
    LET cs == companies(allData)
        Selected(c) == Range(filterStage(allData, c, all))
    IN /\ Range(cs) = UNION {TagSet(allData[i]) : i \in 1..Len(allData)}
       /\ <<>> \notin Range(cs)
       /\ AllDistinct(cs)
       /\ \A i, j \in 1..Len(cs) : i < j => localeCompare(cs[i], cs[j]) < 0
       /\ \A c \in Range(cs) : Selected(c) # {}
       /\ (company # all /\ type = all) => filtered # <<>>
       /\ \A i \in 1..Len(allData) :
            TagSet(allData[i]) # {} =>
              \E c \in Range(cs) : allData[i] \in Selected(c)

\* Three records, one of them without a company tag; the option "globex",
\* selected with the type filter "all", shows one record.
C16_Witness ==
  /\ pc = "idle"
  /\ Len(allData) = 3
  /\ \E i \in 1..Len(allData) : TagSet(allData[i]) = {}
  /\ companies(allData) = <<<<"A", "c", "m", "e">>, <<"g", "l", "o", "b", "e", "x">>, <<"G", "l", "o", "b", "e", "x">>>>
  /\ company = <<"g", "l", "o", "b", "e", "x">>
  /\ type = all
  /\ Len(filtered) = 1

-----------------------------------------------------------------------------
(* Properties of the traversal state, checked under Spec *)

\* C7: with N > 0 cards displayed, nextCard moves the cursor to
\* (index + 1) mod N and prevCard to (index - 1 + N) mod N, so next from the
\* last card gives the first and prev from the first gives the last, and both
\* hide the answer; with N = 3, prev takes 0 to 2, 2 to 1 and 1 to 0.
C7_NextAndPrevWrapAndHide ==
  [][(pc = "idle" /\ Len(filtered) > 0) =>
       LET N == Len(filtered) IN
       /\ lastEvent' = "nextCard" =>
            /\ index' = (index + 1) % N
            /\ index = N - 1 => index' = 0
            /\ revealAnswer' = FALSE
       /\ lastEvent' = "prevCard" =>
            /\ index' = (index - 1 + N) % N
            /\ index = 0 => index' = N - 1
            /\ revealAnswer' = FALSE
            /\ N = 3 => index' = (IF index = 0 THEN 2 ELSE IF index = 2 THEN 1 ELSE 0)
    ]_vars

\* prevCard has wrapped from the first of three cards to the last.
C7_Witness ==
  /\ pc = "idle"
  /\ lastEvent = "prevCard"
  /\ Len(filtered) = 3
  /\ index = 2
  /\ ~revealAnswer

\* One of the inputs of the memo, the working set or the view has changed.
Changed ==
  \/ company' # company
  \/ type' # type
  \/ sortBy' # sortBy
  \/ randomized' # randomized
  \/ allData' # allData
  \/ singleView' # singleView

\* C8: a change of the company filter, the type filter, the sort key, the
\* shuffle flag, the working set or the view leaves the reset effect pending,
\* and the next thing that happens is that effect, after which the cursor is
\* 0 and the answer hidden whatever they were before.
C8_ChangeResetsCursorAndReveal ==
  [][/\ Changed => pc' = "effect"
     /\ pc = "effect" => (pc' = "idle" /\ index' = 0 /\ revealAnswer' = FALSE)
    ]_vars

\* The type filter has just changed from "all" to "technical" at the third
\* card with its answer shown.
C8_Witness ==
  /\ pc = "effect"
  /\ lastEvent = "setType"
  /\ type = <<"t", "e", "c", "h", "n", "i", "c", "a", "l">>
  /\ index = 2
  /\ revealAnswer

\* C9: with no card displayed, nextCard and prevCard change neither the
\* cursor nor the reveal flag; there is no current card and the single view
\* shows the "no cards" placeholder.
C9_NoCardsNextAndPrevDoNothing ==
  /\ [](Len(filtered) = 0 =>
          /\ current = <<>>
          /\ SingleViewShows = "No cards match your filters.")
  /\ [][(pc = "idle" /\ Len(filtered) = 0 /\ lastEvent' \in {"nextCard", "prevCard"}) =>
          /\ index' = index
          /\ revealAnswer' = revealAnswer
          /\ pc' = "idle"
       ]_vars

\* Next was pressed with no card displayed and the answer flag set: the flag
\* is still set.
C9_Witness ==
  /\ pc = "idle"
  /\ singleView
  /\ allData # <<>>
  /\ Len(filtered) = 0
  /\ lastEvent = "nextCard"
  /\ revealAnswer

\* C13: whenever the displayed list holds a card, the cursor is the position
\* of one of its cards, also right after a filter change has shortened the
\* list.
C13_CursorIsAlwaysInRange ==
  Len(filtered) > 0 => index \in 0..(Len(filtered) - 1)

\* A change of filter left one card of three; the render with the new list
\* is committed, the cursor is still on the third card and the single view
\* shows the placeholder in place of the card.
C13_Witness ==
  /\ pc = "effect"
  /\ lastEvent \in {"setCompany", "setType"}
  /\ singleView
  /\ Len(filtered) = 1
  /\ index = 2
  /\ SingleViewShows = "No cards match your filters."

-----------------------------------------------------------------------------
(* Properties of the upload control, checked under SpecUpload *)

\* C11: an upload of a file that is of neither accepted format, or that
\* does not parse, leaves the working set and the displayed list as they
\* were and sets a message that is not empty, which the banner shows.
C11_RejectedUploadKeepsWorkingSet ==
  [][ (lastEvent' = "upload" /\ Rejected(file')) =>
        /\ allData' = allData
        /\ filtered' = filtered
        /\ error' # <<>>
        /\ ErrorBannerShown'
    ]_vars

\* A text file was given while three records were loaded and no message was
\* shown before: the records are still loaded and the banner is shown.
C11_Witness ==
  /\ pc = "idle"
  /\ lastEvent = "upload"
  /\ file.format = "text"
  /\ file.parsed # <<>>
  /\ Len(allData) = 3
  /\ ErrorBannerShown

-----------------------------------------------------------------------------
(* Properties of the keyboard and touch input, checked under SpecInput *)

\* The cursor moves by d cards around the list and the answer is hidden;
\* nothing changes when the list is empty.
Stepped(d) ==
  IF Len(filtered) = 0
  THEN index' = index /\ revealAnswer' = revealAnswer
  ELSE index' = (index + d + Len(filtered)) % Len(filtered) /\ revealAnswer' = FALSE

\* The step ends a touch that moved by more than the threshold.
SwipeEnds == lastEvent' = "touchEnd" /\ touchStartX # <<>> /\ Abs(touchDeltaX) > SWIPE_THRESHOLD

\* C12: in single view ArrowRight and a swipe to the left do next, ArrowLeft
\* and a swipe to the right do prev, Space toggles the answer and keeps the
\* cursor; in grid view a key press changes neither the cursor nor the
\* reveal flag.
C12_KeysAndSwipesDriveSingleViewOnly ==
  [][ /\ (singleView /\ lastEvent' = "ArrowRight") => Stepped(1)
      /\ (singleView /\ lastEvent' = "ArrowLeft") => Stepped(-1)
      /\ (singleView /\ lastEvent' = "Space") =>
           (index' = index /\ revealAnswer' = ~revealAnswer)
      /\ (SwipeEnds /\ touchDeltaX < 0) => (singleView /\ Stepped(1))
      /\ (SwipeEnds /\ touchDeltaX > 0) => (singleView /\ Stepped(-1))
      /\ (~singleView /\ lastEvent' \in {e.code : e \in KeyEvents}) =>
           (index' = index /\ revealAnswer' = revealAnswer)
    ]_vars

\* ArrowRight, pressed in grid view, has moved the cursor to the second card.
C12_Witness ==
  /\ pc = "idle"
  /\ ~singleView
  /\ lastEvent = "ArrowRight"
  /\ index = 1

-----------------------------------------------------------------------------
(* Properties of the grid of cards, checked under SpecGrid *)

\* C14: once a change of the company filter, the type filter, the sort key
\* or the shuffle flag has been rendered and its effects have run, no answer
\* is shown: the reveal flag of the single view is off and no card of the
\* grid shows its answer face.
C14_ChangeHidesEveryAnswer ==
  (pc = "idle" /\ lastEvent \in {"setCompany", "setType", "setSortBy", "setRandomized"}) =>
    /\ ~revealAnswer
    /\ \A i \in 1..Len(flipped) : ~GridCardIsRevealed(i)

\* The type filter was changed in grid view; the first card of the new list
\* shows its answer face.
C14_Witness ==
  /\ pc = "idle"
  /\ ~singleView
  /\ lastEvent = "setType"
  /\ Len(filtered) > 0
  /\ GridCardIsRevealed(1)

====
